---- MODULE Spec2Model ----
(***************************************************************************)
(* A model of erratus/movie-recommendation-system:                         *)
(*   src/api_client.py   the TMDB client: _handle_request (retry loop),    *)
(*                       the three lru_cache'd wrappers and                *)
(*                       map_movielens_to_tmdb (title -> TMDB id, with a   *)
(*                       JSON cache file);                                 *)
(*   src/data_loader.py  clean_data (the two value_counts filters).        *)
(* The program is sequential.  One action is one iteration of the retry    *)
(* loop, one call of a memoized wrapper, one row of the mapping loop, or   *)
(* one whole call of a function without a loop.                            *)
(***************************************************************************)
EXTENDS Integers, Sequences, FiniteSets, TLC

(***************************************************************************)
(* Program constants.                                                      *)
(***************************************************************************)
RETRIES == 3
WAIT_TIME == 1
\* the default of headers.get("Retry-After", 1)
DEFAULT_RETRY_AFTER == 1

(***************************************************************************)
(* Bounds of the model.                                                    *)
(***************************************************************************)
\* lru_cache(maxsize=500) scaled down: the number of entries a cache keeps
maxsize == 2
\* the number of distinct lookup titles (must exceed maxsize to evict)
NumTitles == 3
\* the number of TMDB ids used as keys of get_movie_details/get_recommendations
NumIds == 1
\* the largest number of seconds a Retry-After header asks for
MaxRetryAfter == 2
\* the number of rows of the movies table given to map_movielens_to_tmdb
MaxRows == 2
\* clean_data: user ids, movie ids, and thresholds range over 1..these
NumUsers == 3
NumMovies == 2
MaxThreshold == 2
\* the number of rows of the ratings table given to clean_data
MaxRatings == 4

(***************************************************************************)
(* Python values.  Every value is a record with the same fields, so that   *)
(* values of different Python types can be compared:                       *)
(*   t = "None"                       None                                 *)
(*   t = "list", items = <<...>>      a list                               *)
(*   t = "dict"                       a dict; has: it has the key          *)
(*                                    "results", whose value is items;     *)
(*                                    extra: it has other keys             *)
(***************************************************************************)
PyNone == [t |-> "None", has |-> FALSE, items |-> <<>>, extra |-> FALSE]
PyList(xs) == [t |-> "list", has |-> FALSE, items |-> xs, extra |-> FALSE]
PyDict(h, xs, e) == [t |-> "dict", has |-> h, items |-> xs, extra |-> e]

\* bool(v) as the conditional expression `... if result else []` takes it
Truthy(v) ==
  CASE v.t = "None" -> FALSE
    [] v.t = "list" -> Len(v.items) > 0
    [] OTHER -> v.has \/ v.extra

\* a search candidate, as far as the program reads it: its "id"
Candidate(i) == [id |-> i]

\* the "results" arrays the service answers with: no candidate, or two
ResultLists == {<<>>, <<Candidate(2), Candidate(1)>>}

(***************************************************************************)
(* HTTP.  A response body is its text, given by what response.json()       *)
(* makes of it: the value it parses to, or, for a text that is no JSON     *)
(* document, the exception raised.  That exception is                      *)
(* requests.exceptions.JSONDecodeError, a RequestException, from requests  *)
(* 2.27 on, and a plain ValueError before; the repository pins no version  *)
(* of requests, so both are outcomes.                                      *)
(***************************************************************************)
InvalidBody(e) == [json |-> FALSE, value |-> PyNone, raises |-> e]
JsonBody(v) == [json |-> TRUE, value |-> v, raises |-> "none"]
NoBody == InvalidBody("RequestException")

Bodies ==
  {InvalidBody("RequestException"),
   InvalidBody("ValueError"),
   JsonBody(PyNone),                      \* null
   JsonBody(PyList(<<Candidate(1)>>)),    \* a JSON array
   JsonBody(PyDict(FALSE, <<>>, FALSE)),  \* {}
   JsonBody(PyDict(FALSE, <<>>, TRUE))}   \* a record without "results"
  \cup {JsonBody(PyDict(TRUE, rs, FALSE)) : rs \in ResultLists}

\* a header value is its text, a sequence of characters
NoHeader == [present |-> FALSE, text |-> <<>>]
Header(s) == [present |-> TRUE, text |-> s]
Digits == <<"0", "1", "2", "3", "4", "5", "6", "7", "8", "9">>
DigitOf(n) == Digits[n + 1]

RetryAfterHeaders ==
  {NoHeader, Header(<<"-", "1">>), Header(<<"W", "e", "d">>)}
  \cup {Header(<<DigitOf(n)>>) : n \in 0..MaxRetryAfter}

TransportError == [kind |-> "exc", status |-> 0, retryAfter |-> NoHeader,
                   body |-> NoBody]
Response(s, h, b) == [kind |-> "resp", status |-> s, retryAfter |-> h, body |-> b]

\* what requests.get can do: raise a RequestException, or answer.  The code
\* reads the Retry-After header of a 429 and the body of a 200 only (the
\* body of the other outcomes is immaterial and written NoBody).
Outcomes ==
  {TransportError}
  \cup {Response(429, h, NoBody) : h \in RetryAfterHeaders}
  \cup {Response(200, NoHeader, b) : b \in Bodies}
  \cup {Response(s, NoHeader, NoBody) : s \in {404, 500}}

(***************************************************************************)
(* int(text): an optional sign and one or more decimal digits.             *)
(***************************************************************************)
IsDigit(c) == \E n \in 0..9 : Digits[n + 1] = c
DigitVal(c) == CHOOSE n \in 0..9 : Digits[n + 1] = c

RECURSIVE DigitsVal(_)
DigitsVal(s) ==
  IF s = <<>> THEN 0
  ELSE 10 * DigitsVal(SubSeq(s, 1, Len(s) - 1)) + DigitVal(s[Len(s)])

AllDigits(s) == Len(s) > 0 /\ \A i \in 1..Len(s) : IsDigit(s[i])

IsIntLiteral(s) ==
  \/ AllDigits(s)
  \/ Len(s) > 1 /\ s[1] \in {"-", "+"} /\ AllDigits(Tail(s))

PyInt(s) ==
  IF s[1] = "-" THEN 0 - DigitsVal(Tail(s))
  ELSE IF s[1] = "+" THEN DigitsVal(Tail(s))
  ELSE DigitsVal(s)

VARIABLES
  cache,      \* fn -> the lru_cache of that wrapper, most recently used first
  pc,         \* "idle", "loop" (inside _handle_request) or "done"
  fn,         \* the function the client was called through
  key,        \* its argument
  requests,   \* the requests.get calls of the current call
  last,       \* the outcome of the latest requests.get
  slept,      \* the seconds slept in the latest loop iteration
  kinds,      \* what each requests.get of the current call did, in order
  status,     \* how the call ended: "none", "returned" or the exception raised
  ret,        \* the value it returned
  watch,      \* history: an earlier search_movie call and the titles since
  file,       \* data/processed/movieId_tmdbId_map.json
  mpc,        \* map_movielens_to_tmdb: "idle", "loop", "search" or "done"
  rows,       \* its argument movies_df, a sequence of rows
  idx,        \* the rows the loop has processed
  mapping,    \* the dict it builds
  mstatus,    \* how it ended: "none", "returned" or the exception raised
  mret,       \* the dict it returned
  mlog,       \* history: per row, the title looked up and the result
  msleeps,    \* history: its time.sleep(0.25) calls
  fileAtStart,\* history: the file when it was called
  writes,     \* history: the times it wrote the file
  cpc,        \* clean_data: "idle" or "done"
  ratings,    \* its argument, a sequence of rows
  min_ratings,
  min_users,
  cleaned     \* the table it returned

apiVars == <<cache, pc, fn, key, requests, last, slept, kinds, status, ret>>
mapVars == <<file, mpc, rows, idx, mapping, mstatus, mret, mlog, msleeps,
             fileAtStart, writes>>
cleanVars == <<cpc, ratings, min_ratings, min_users, cleaned>>
vars == <<apiVars, watch, mapVars, cleanVars>>

(***************************************************************************)
(* Keys of the memoized wrappers.  A title is a sequence of characters.    *)
(***************************************************************************)
Letters == <<"T", "U", "V", "W", "X">>
Titles == {<<Letters[i]>> : i \in 1..NumTitles}
TmdbIds == 1..NumIds
Memoized == {"search_movie", "get_movie_details", "get_recommendations"}

(***************************************************************************)
(* functools.lru_cache(maxsize): a hit moves the entry to the front; a     *)
(* miss computes the value and, if the function returned, stores it at the *)
(* front, dropping the least recently used entry of a full cache.  A call  *)
(* that raises stores nothing.                                             *)
(***************************************************************************)
CacheIndex(c, k) ==
  IF \E i \in 1..Len(c) : c[i].key = k
  THEN CHOOSE i \in 1..Len(c) : c[i].key = k
  ELSE 0

Without(c, i) == SubSeq(c, 1, i - 1) \o SubSeq(c, i + 1, Len(c))

\* (a variant that leaves a hit entry where it is: first in, first out)
CacheTouchFifo(c, i) == c

CacheTouch(c, i) == <<c[i]>> \o Without(c, i)

CacheStore(c, k, v) ==
  LET e == [key |-> k, value |-> v]
  IN IF Len(c) >= maxsize THEN <<e>> \o SubSeq(c, 1, maxsize - 1)
     ELSE <<e>> \o c

(***************************************************************************)
(* One iteration of the loop of _handle_request on the outcome o of        *)
(* requests.get: what the iteration does next (ctl), the value returned,   *)
(* the exception raised, and the seconds slept.                            *)
(***************************************************************************)
Step(c, v, e, s) == [ctl |-> c, value |-> v, exc |-> e, slept |-> s]

RetryAfterSeconds(h) ==
  IF h.present THEN PyInt(h.text) ELSE DEFAULT_RETRY_AFTER

\* (a variant that waits WAIT_TIME whatever the header says)
RateLimitedFixedWait(o) ==
  IF o.retryAfter.present /\ ~IsIntLiteral(o.retryAfter.text)
  THEN Step("raise", PyNone, "ValueError", 0)
  ELSE Step("continue", PyNone, "none", WAIT_TIME)

RateLimited(o) ==
  IF o.retryAfter.present /\ ~IsIntLiteral(o.retryAfter.text)
  THEN Step("raise", PyNone, "ValueError", 0)        \* int(...) raises
  ELSE IF RetryAfterSeconds(o.retryAfter) < 0
  THEN Step("raise", PyNone, "ValueError", 0)        \* time.sleep(...) raises
  ELSE Step("continue", PyNone, "none", RetryAfterSeconds(o.retryAfter))

Ok(o) ==
  IF o.body.json THEN Step("return", o.body.value, "none", 0)
  ELSE IF o.body.raises = "RequestException"
  THEN Step("continue", PyNone, "none", WAIT_TIME)   \* caught by the except
  ELSE Step("raise", PyNone, "ValueError", 0)

\* (a variant that retries on every status but 200)
IterationRetriesErrors(o) ==
  CASE o.kind = "exc" -> Step("continue", PyNone, "none", WAIT_TIME)
    [] o.kind = "resp" /\ o.status = 429 -> RateLimited(o)
    [] o.kind = "resp" /\ o.status = 200 -> Ok(o)
    [] OTHER -> Step("continue", PyNone, "none", WAIT_TIME)

Iteration(o) ==
  CASE o.kind = "exc" -> Step("continue", PyNone, "none", WAIT_TIME)
    [] o.kind = "resp" /\ o.status = 429 -> RateLimited(o)
    [] o.kind = "resp" /\ o.status = 200 -> Ok(o)
    [] OTHER -> Step("return", PyNone, "none", 0)

\* the branch of the loop body an outcome takes
KindOf(o) ==
  CASE o.kind = "exc" -> "exc"
    [] o.kind = "resp" /\ o.status = 429 -> "429"
    [] o.kind = "resp" /\ o.status = 200 -> "200"
    [] OTHER -> "other"

\* the loop runs range(RETRIES): after the n-th request, it goes on if n < RETRIES
\* (a variant that runs one iteration more)
LoopContinuesOnceMore(n) == n <= RETRIES

LoopContinues(n) == n < RETRIES

\* how _handle_request ends after the iteration st, the n-th of the call
HandleRequestEnd(st, n) ==
  IF st.ctl = "continue" THEN Step("return", PyNone, "none", st.slept) ELSE st

(***************************************************************************)
(* The wrappers' bodies, applied to how _handle_request ended.             *)
(***************************************************************************)
Returned(v) == [status |-> "returned", value |-> v]
Raised(e) == [status |-> e, value |-> PyNone]

\* result.get("results", []) if result else []
ResultsOf(result) ==
  IF Truthy(result)
  THEN IF result.t = "dict"
       THEN Returned(PyList(IF result.has THEN result.items ELSE <<>>))
       ELSE Raised("AttributeError")
  ELSE Returned(PyList(<<>>))

WrapperEnd(f, end) ==
  IF end.ctl = "raise" THEN Raised(end.exc)
  ELSE IF f \in {"search_movie", "get_recommendations"} THEN ResultsOf(end.value)
  ELSE Returned(end.value)

(***************************************************************************)
(* Initial state: a fresh process, nothing called yet.                     *)
(***************************************************************************)
NoOutcome == [kind |-> "none", status |-> 0, retryAfter |-> NoHeader,
              body |-> NoBody]
NoWatch == [on |-> FALSE, title |-> <<>>, result |-> PyNone, between |-> {},
            again |-> FALSE]

ApiInit ==
  /\ cache = [f \in Memoized |-> <<>>]
  /\ pc = "idle"
  /\ fn = "none"
  /\ key = <<>>
  /\ requests = 0
  /\ last = NoOutcome
  /\ slept = 0
  /\ kinds = <<>>
  /\ status = "none"
  /\ ret = PyNone

NoFile == [exists |-> FALSE, content |-> {}]

MapInit ==
  /\ mpc = "idle"
  /\ rows = <<>>
  /\ idx = 0
  /\ mapping = {}
  /\ mstatus = "none"
  /\ mret = {}
  /\ mlog = <<>>
  /\ msleeps = 0
  /\ fileAtStart = NoFile
  /\ writes = 0

CleanInit ==
  /\ cpc = "idle"
  /\ ratings = <<>>
  /\ min_ratings = 1
  /\ min_users = 1
  /\ cleaned = <<>>

Init ==
  /\ ApiInit
  /\ watch = NoWatch
  /\ file = NoFile
  /\ MapInit
  /\ CleanInit

\* nothing is running: the caller can make its next call
Idle == pc \in {"idle", "done"} /\ mpc \in {"idle", "done"}

\* entering _handle_request
EnterHandleRequest(f, k) ==
  /\ pc' = "loop"
  /\ fn' = f
  /\ key' = k
  /\ requests' = 0
  /\ last' = NoOutcome
  /\ slept' = 0
  /\ kinds' = <<>>
  /\ status' = "none"
  /\ ret' = PyNone
  /\ UNCHANGED cache

\* a call of _handle_request itself
CallHandleRequest ==
  /\ Idle
  /\ EnterHandleRequest("_handle_request", <<>>)
  /\ UNCHANGED <<watch, mapVars, cleanVars>>

\* a call f(k) of a memoized wrapper
MemoCall(f, k) ==
  LET i == CacheIndex(cache[f], k)
  IN IF i > 0
     THEN /\ cache' = [cache EXCEPT ![f] = CacheTouch(cache[f], i)]
          /\ pc' = "done"
          /\ fn' = f
          /\ key' = k
          /\ requests' = 0
          /\ last' = NoOutcome
          /\ slept' = 0
          /\ kinds' = <<>>
          /\ status' = "returned"
          /\ ret' = cache[f][i].value
     ELSE EnterHandleRequest(f, k)

\* history: the titles looked up since the watched call
WatchCall(t) ==
  watch' = IF ~watch.on THEN watch
           ELSE IF t = watch.title THEN [watch EXCEPT !.again = TRUE]
           ELSE [watch EXCEPT !.between = @ \cup {t}]

SearchMovie(t) ==
  /\ MemoCall("search_movie", t)
  /\ WatchCall(t)

CallSearchMovie ==
  /\ Idle
  /\ \E t \in Titles : SearchMovie(t)
  /\ UNCHANGED <<mapVars, cleanVars>>

CallGetMovieDetails ==
  /\ Idle
  /\ \E i \in TmdbIds : MemoCall("get_movie_details", i)
  /\ UNCHANGED <<watch, mapVars, cleanVars>>

CallGetRecommendations ==
  /\ Idle
  /\ \E i \in TmdbIds : MemoCall("get_recommendations", i)
  /\ UNCHANGED <<watch, mapVars, cleanVars>>

\* one iteration of `for attempt in range(RETRIES)`; when it ends the call,
\* the wrapper's body and the cache store follow.  last, slept and kinds
\* record the iterations of a _handle_request call for its caller: they are
\* kept when the call was made directly, and are gone with the frame when
\* _handle_request returns into a wrapper.
AttemptWith(o) ==
  LET n == requests + 1
      st == Iteration(o)
      over == ~(st.ctl = "continue" /\ LoopContinues(n))
      kept == ~(over /\ fn \in Memoized)
  IN /\ requests' = n
     /\ last' = IF kept THEN o ELSE NoOutcome
     /\ slept' = IF kept THEN st.slept ELSE 0
     /\ kinds' = IF kept THEN Append(kinds, KindOf(o)) ELSE <<>>
     /\ UNCHANGED <<fn, key>>
     /\ IF ~over
        THEN /\ pc' = "loop"
             /\ UNCHANGED <<status, ret, cache>>
        ELSE LET w == WrapperEnd(fn, HandleRequestEnd(st, n))
             IN /\ pc' = "done"
                /\ status' = w.status
                /\ ret' = w.value
                /\ cache' = IF fn \in Memoized /\ w.status = "returned"
                             THEN [cache EXCEPT ![fn] = CacheStore(cache[fn], key, w.value)]
                             ELSE cache

Attempt ==
  /\ pc = "loop"
  /\ \E o \in Outcomes : AttemptWith(o)
  /\ UNCHANGED <<watch, mapVars, cleanVars>>

\* history: start watching the search_movie call that has just returned
Observe ==
  /\ pc = "done" /\ fn = "search_movie" /\ status = "returned"
  /\ watch' = [on |-> TRUE, title |-> key, result |-> ret, between |-> {},
               again |-> FALSE]
  /\ watch' # watch
  /\ UNCHANGED <<apiVars, mapVars, cleanVars>>

(***************************************************************************)
(* map_movielens_to_tmdb.                                                  *)
(***************************************************************************)
\* str.split(" (")[0]: the text before the first " (", or all of it
SeparatorAt(s) == {i \in 1..(Len(s) - 1) : s[i] = " " /\ s[i + 1] = "("}
Least(S) == CHOOSE i \in S : \A j \in S : i <= j

SplitFirst(s) ==
  IF SeparatorAt(s) = {} THEN s ELSE SubSeq(s, 1, Least(SeparatorAt(s)) - 1)

\* the titles of the movies table: with a year, with two parentheses, with
\* a parenthesis that no space precedes, and starting with " ("
Year == <<" ", "(", "1", ")">>
RawTitles ==
  {<<"T">>,
   <<"T">> \o Year,
   <<"U", " ", "(", "a", ")">> \o Year,
   <<"U", "(", "a", ")">>,
   Year}

\* movieId identifies a row of movies.csv: no two rows share one.  The i-th
\* row of a table has the movieId 10 * i - 9 (1, 11, 21, ...).
MovieIdOf(i) == 10 * i - 9
Row(m, t) == [movieId |-> m, title |-> t]
Tables ==
  {[i \in 1..Len(ts) |-> Row(MovieIdOf(i), ts[i])] :
     ts \in UNION {[1..n -> RawTitles] : n \in 0..MaxRows}}

\* a Python dict is the set of its items; a key is an int or a str
IntKey(n) == [t |-> "int", n |-> n, text |-> <<>>]
StrKey(s) == [t |-> "str", n |-> 0, text |-> s]
Item(k, v) == [key |-> k, value |-> v]
DictSet(d, k, v) == {e \in d : e.key # k} \cup {Item(k, v)}

\* str(n) for n >= 0
RECURSIVE Str(_)
Str(n) == IF n < 10 THEN <<DigitOf(n)>> ELSE Str(n \div 10) \o <<DigitOf(n % 10)>>

\* json.dump writes an int key as the string of its digits; the text of the
\* file is given by the members of the JSON object it holds
JsonKey(k) == IF k.t = "int" THEN StrKey(Str(k.n)) ELSE k
JsonDump(d) == {Item(JsonKey(e.key), e.value) : e \in d}
\* json.load gives the object's members back, the keys as str
JsonLoad(text) == text

\* os.path.exists(cache_file)
\* (a variant that never finds the file)
PathExistsNever(f) == FALSE

PathExists(f) == f.exists

\* results[0]["id"]
\* (a variant that takes the last candidate)
LastId(results) == results[Len(results)].id

FirstId(results) == results[1].id

\* the call of map_movielens_to_tmdb, which a process makes once, up to the
\* loop; with the file in place it is the whole call
CallMap ==
  /\ pc = "idle" /\ mpc = "idle"
  /\ \E df \in Tables :
       /\ rows' = df
       /\ fileAtStart' = file
       /\ idx' = 0
       /\ mapping' = {}
       /\ mlog' = <<>>
       /\ msleeps' = 0
       /\ writes' = 0
       /\ IF PathExists(file)
          THEN /\ mpc' = "done"
               /\ mstatus' = "returned"
               /\ mret' = JsonLoad(file.content)
          ELSE /\ mpc' = "loop"
               /\ mstatus' = "none"
               /\ mret' = {}
  /\ UNCHANGED <<apiVars, watch, file, cleanVars>>

\* a row of the loop, up to the call search_movie(title)
MapLookup ==
  /\ mpc = "loop" /\ idx < Len(rows)
  /\ SearchMovie(SplitFirst(rows[idx + 1].title))
  /\ mpc' = "search"
  /\ UNCHANGED <<file, rows, idx, mapping, mstatus,
                 mret, mlog, msleeps, fileAtStart, writes, cleanVars>>

\* (a variant that saves the mapping after every row)
MapStoreCheckpoint ==
  /\ mpc = "search" /\ pc = "done"
  /\ IF status = "returned"
     THEN /\ mapping' = IF Len(ret.items) > 0
                         THEN DictSet(mapping, IntKey(rows[idx + 1].movieId),
                                      FirstId(ret.items))
                         ELSE mapping
          /\ mlog' = Append(mlog, [title |-> key, results |-> ret.items])
          /\ msleeps' = msleeps + 1
          /\ idx' = idx + 1
          /\ mpc' = "loop"
          /\ file' = [exists |-> TRUE, content |-> JsonDump(mapping')]
          /\ UNCHANGED <<mstatus, mret>>
     ELSE /\ mstatus' = status
          /\ mpc' = "done"
          /\ UNCHANGED <<mapping, mlog, msleeps, idx, mret, file>>
  /\ UNCHANGED <<apiVars, watch, rows,
                 fileAtStart, writes, cleanVars>>

\* the rest of the row, once search_movie is over: the store into mapping and
\* the sleep; an exception of search_movie ends the call
MapStore ==
  /\ mpc = "search" /\ pc = "done"
  /\ IF status = "returned"
     THEN /\ mapping' = IF Len(ret.items) > 0
                         THEN DictSet(mapping, IntKey(rows[idx + 1].movieId),
                                      FirstId(ret.items))
                         ELSE mapping
          /\ mlog' = Append(mlog, [title |-> key, results |-> ret.items])
          /\ msleeps' = msleeps + 1
          /\ idx' = idx + 1
          /\ mpc' = "loop"
          /\ UNCHANGED <<mstatus, mret>>
     ELSE /\ mstatus' = status
          /\ mpc' = "done"
          /\ UNCHANGED <<mapping, mlog, msleeps, idx, mret>>
  /\ UNCHANGED <<apiVars, watch, file, rows,
                 fileAtStart, writes, cleanVars>>

\* after the loop: open(cache_file, "w"), json.dump, return
MapWrite ==
  /\ mpc = "loop" /\ idx = Len(rows)
  /\ file' = [exists |-> TRUE, content |-> JsonDump(mapping)]
  /\ writes' = writes + 1
  /\ mret' = mapping
  /\ mstatus' = "returned"
  /\ mpc' = "done"
  /\ UNCHANGED <<apiVars, watch, rows, idx, mapping,
                 mlog, msleeps, fileAtStart, cleanVars>>

\* the process ends (at the latest when an exception reaches its top level)
\* and a new one starts: the caches are empty, the file is still there
NewProcess ==
  /\ Idle
  /\ pc = "done" \/ mpc = "done"
  /\ cache' = [f \in Memoized |-> <<>>]
  /\ pc' = "idle"
  /\ fn' = "none"
  /\ key' = <<>>
  /\ requests' = 0
  /\ last' = NoOutcome
  /\ slept' = 0
  /\ kinds' = <<>>
  /\ status' = "none"
  /\ ret' = PyNone
  /\ watch' = NoWatch
  /\ mpc' = "idle"
  /\ rows' = <<>>
  /\ idx' = 0
  /\ mapping' = {}
  /\ mstatus' = "none"
  /\ mret' = {}
  /\ mlog' = <<>>
  /\ msleeps' = 0
  /\ fileAtStart' = NoFile
  /\ writes' = 0
  /\ UNCHANGED <<file, cleanVars>>

(***************************************************************************)
(* clean_data.                                                             *)
(***************************************************************************)
Rating(u, m) == [userId |-> u, movieId |-> m]
RatingTables ==
  UNION {[1..n -> {Rating(u, m) : u \in 1..NumUsers, m \in 1..NumMovies}] :
           n \in 0..MaxRatings}

\* ratings[column].value_counts()[v]
ValueCount(table, column, v) ==
  Cardinality({i \in 1..Len(table) : table[i][column] = v})

\* ratings[ratings[column].isin(counts[counts >= least].index)]
AtLeast(table, column, least) ==
  LET Kept(r) == ValueCount(table, column, r[column]) >= least
  IN SelectSeq(table, Kept)

clean_data(table, minRatings, minUsers) ==
  AtLeast(AtLeast(table, "movieId", minRatings), "userId", minUsers)

\* run() calls clean_data once
CallCleanData ==
  /\ cpc = "idle"
  /\ \E table \in RatingTables, r, u \in 1..MaxThreshold :
       /\ ratings' = table
       /\ min_ratings' = r
       /\ min_users' = u
       /\ cleaned' = clean_data(table, r, u)
  /\ cpc' = "done"
  /\ UNCHANGED <<apiVars, watch, mapVars>>

RequestNext == CallHandleRequest \/ Attempt
SpecRequest == Init /\ [][RequestNext]_vars

SearchNext == CallSearchMovie \/ Attempt \/ Observe
SpecSearch == Init /\ [][SearchNext]_vars

ApiNext ==
  \/ CallHandleRequest
  \/ CallSearchMovie
  \/ CallGetMovieDetails
  \/ CallGetRecommendations
  \/ Attempt
SpecApi == Init /\ [][ApiNext]_vars

MapNext == CallMap \/ MapLookup \/ Attempt \/ MapStore \/ MapWrite \/ NewProcess
SpecMap == Init /\ [][MapNext]_vars

SpecClean == Init /\ [][CallCleanData]_vars

(***************************************************************************)
(* Properties of _handle_request (SpecRequest).                            *)
(***************************************************************************)
IsRequest == requests' = requests + 1
ErrorStatus(o) == o.kind = "resp" /\ o.status \notin {200, 429}

\* C2: a response with a status other than 200 and 429 ends the call at once
\* with None: the call is over in the state that follows it, its n-th request
\* is the last (n = 1 when it answers the first request), and no request is
\* ever issued right after such a response.
C2_ErrorStatusReturnsNoneAtOnce ==
  /\ [](ErrorStatus(last) =>
          pc = "done" /\ status = "returned" /\ ret = PyNone)
  /\ [][IsRequest /\ ErrorStatus(last') =>
          pc' = "done" /\ (requests = 0 => requests' = 1)]_vars
  /\ [][IsRequest => ~ErrorStatus(last)]_vars

C2_Witness ==
  /\ pc = "done" /\ fn = "_handle_request"
  /\ requests = 1 /\ last.kind = "resp" /\ last.status = 404
  /\ status = "returned" /\ ret = PyNone

AllTransportErrors == \A i \in 1..Len(kinds) : kinds[i] = "exc"

\* C3: a call whose requests all fail with a transport error issues exactly
\* RETRIES requests, sleeps WAIT_TIME after each, and returns None.
C3_TransportErrorsExhaustRetries ==
  /\ [](AllTransportErrors /\ pc = "loop" => requests < RETRIES)
  /\ [](AllTransportErrors /\ pc = "done" /\ requests > 0 =>
          requests = RETRIES /\ status = "returned" /\ ret = PyNone)
  /\ [][IsRequest /\ last'.kind = "exc" => slept' = WAIT_TIME]_vars

C3_Witness ==
  /\ pc = "done" /\ fn = "_handle_request"
  /\ kinds = <<"exc", "exc", "exc">> /\ requests = RETRIES
  /\ slept = WAIT_TIME /\ status = "returned" /\ ret = PyNone

\* a 429 whose Retry-After is absent or a number of seconds d >= 0
RateLimitedFor(o, d) ==
  /\ o.kind = "resp" /\ o.status = 429
  /\ \/ ~o.retryAfter.present /\ d = 1
     \/ o.retryAfter.present /\ o.retryAfter.text = <<DigitOf(d)>>

\* C4: after a 429 asking for d seconds (1 when the header is absent) the
\* client has slept at least d when the iteration ends; a request that
\* follows a 429 follows one that asked for such a d, after a sleep of at
\* least d; and if that request is answered 200 with a JSON body, the call
\* returns that body parsed.  This on every attempt of the call.
C4_RateLimitWaitsThenSucceeds ==
  /\ [](\A d \in 0..MaxRetryAfter : RateLimitedFor(last, d) => slept >= d)
  /\ [][IsRequest /\ last.kind = "resp" /\ last.status = 429 =>
          \E d \in 0..MaxRetryAfter : RateLimitedFor(last, d) /\ slept >= d]_vars
  /\ [][(/\ IsRequest
          /\ \E d \in 0..MaxRetryAfter : RateLimitedFor(last, d)
          /\ last'.kind = "resp" /\ last'.status = 200 /\ last'.body.json)
         => pc' = "done" /\ status' = "returned" /\ ret' = last'.body.value]_vars

C4_Witness ==
  /\ pc = "done" /\ fn = "_handle_request"
  /\ kinds = <<"exc", "429", "200">>
  /\ status = "returned"
  /\ ret = PyDict(TRUE, <<Candidate(2), Candidate(1)>>, FALSE)

\* C9: no call issues more than RETRIES requests, a request is issued only
\* while fewer than RETRIES were, and a call answered 429 on each of its
\* RETRIES attempts has returned None.
C9_AtMostRetriesRequests ==
  /\ requests <= RETRIES
  /\ pc = "loop" => requests < RETRIES
  /\ (/\ Len(kinds) = RETRIES
      /\ \A i \in 1..Len(kinds) : kinds[i] = "429")
     => pc = "done" /\ status = "returned" /\ ret = PyNone

\* the part of C9 about the number of requests alone
RequestsBounded ==
  /\ requests <= RETRIES
  /\ pc = "loop" => requests < RETRIES

(***************************************************************************)
(* Properties of the wrappers.                                             *)
(***************************************************************************)
\* C8: no call raises: every call that has ended has returned.
C8_NoCallRaises == pc = "done" => status = "returned"

\* a later call search_movie(watch.title) is under way or over
SecondCall ==
  watch.on /\ watch.again /\ fn = "search_movie" /\ key = watch.title

Reused ==
  pc = "done" /\ status = "returned" /\ requests = 0 /\ ret = watch.result

\* C1 as stated: whatever was looked up in between, a second call
\* search_movie(t) returns the first call's result without a request.
C1_AlwaysReused == SecondCall => Reused

\* C1 amended: once search_movie(t) has returned, a later call
\* search_movie(t) returns the same result without a request if fewer than
\* maxsize distinct other titles were looked up in between.
C1_ReusedUnlessEvicted ==
  SecondCall /\ Cardinality(watch.between) < maxsize => Reused

\* the reused result is the empty list of a failed first call, with another
\* title looked up in between
C1_Witness ==
  /\ SecondCall /\ Reused
  /\ watch.result = PyList(<<>>)
  /\ Cardinality(watch.between) = maxsize - 1
  /\ Len(cache["search_movie"]) = maxsize

(***************************************************************************)
(* Properties of map_movielens_to_tmdb (SpecMap).                          *)
(***************************************************************************)
\* a step that is a call of map_movielens_to_tmdb with the file in place
StartsWithFile == mpc = "idle" /\ mpc' # "idle" /\ file.exists

\* C5: called with the cache file in place, map_movielens_to_tmdb returns
\* what the file holds, in that one step: no search_movie call, no request,
\* no sleep, and the file as it was, whatever the table.
C5_ExistingFileReturnedVerbatim ==
  /\ [](mpc # "idle" /\ fileAtStart.exists =>
          /\ mpc = "done" /\ mstatus = "returned"
          /\ mret = JsonLoad(fileAtStart.content)
          /\ file = fileAtStart
          /\ mlog = <<>> /\ msleeps = 0
          /\ pc = "idle" /\ requests = 0 /\ slept = 0)
  /\ [][StartsWithFile => mpc' = "done" /\ UNCHANGED <<apiVars, file>>]_vars

\* the file holds an entry that the table of this call has no row for
C5_Witness ==
  /\ mpc = "done" /\ fileAtStart.exists /\ Len(rows) = 1
  /\ mret = {Item(StrKey(<<"1", "1">>), 2)}
  /\ rows[1].movieId = 1

\* p is s cut at its first " (": s continues after p with " (" and p holds
\* no " (", or s holds no " (" and p is s
IsTruncation(p, s) ==
  LET HasSeparator(x) ==
        \E i \in 1..(Len(x) - 1) : x[i] = " " /\ x[i + 1] = "("
  IN \/ p = s /\ ~HasSeparator(s)
     \/ /\ Len(p) + 2 <= Len(s)
        /\ \A i \in 1..Len(p) : p[i] = s[i]
        /\ s[Len(p) + 1] = " " /\ s[Len(p) + 2] = "("
        /\ ~HasSeparator(SubSeq(s, 1, Len(p) + 1))

\* the mapping the rows rs and their search results give
MappingOf(rs, log) ==
  {Item(IntKey(rs[i].movieId), log[i].results[1].id) :
     i \in {j \in 1..Len(rs) : Len(log[j].results) > 0}}

\* C6: when a call that found no cache file returns, it has looked up every
\* row, in order, under the row's title cut at the first " (", and the
\* mapping returned has the row's movieId as a key exactly if the search
\* gave a candidate, the value being the first candidate's id.
C6_MappingOfFirstCandidates ==
  mpc = "done" /\ mstatus = "returned" /\ ~fileAtStart.exists =>
    /\ Len(mlog) = Len(rows)
    /\ \A i \in 1..Len(rows) : IsTruncation(mlog[i].title, rows[i].title)
    /\ \A i \in 1..Len(rows) :
         (\E e \in mret : e.key = IntKey(rows[i].movieId))
           <=> Len(mlog[i].results) > 0
    /\ mret = MappingOf(rows, mlog)

\* one row has two candidates, the other a failed search
C6_Witness ==
  /\ mpc = "done" /\ mstatus = "returned" /\ ~fileAtStart.exists
  /\ Len(rows) = 2
  /\ rows[1].title = <<"U", " ", "(", "a", ")">> \o Year
  /\ mlog[1].title = <<"U">>
  /\ mlog[1].results = <<Candidate(2), Candidate(1)>>
  /\ mlog[2].results = <<>> /\ requests = RETRIES
  /\ mret = {Item(IntKey(rows[1].movieId), 2)}

C7_BothThresholdsHold ==
  cpc = "done" =>
    \A i \in 1..Len(cleaned) :
      /\ ValueCount(cleaned, "movieId", cleaned[i].movieId) >= min_ratings
      /\ ValueCount(cleaned, "userId", cleaned[i].userId) >= min_users

\* the half of C7 that the second filter establishes
UsersThresholdHolds ==
  cpc = "done" =>
    \A i \in 1..Len(cleaned) :
      ValueCount(cleaned, "userId", cleaned[i].userId) >= min_users

====
